---- MODULE Spec2Model ----
(***************************************************************************)
(* A model of src/app.py: the Flask handler `index` and the pipeline       *)
(* `generate_invoice` (CSV -> sorted, numbered rows -> styled xlsx -> html *)
(* -> pdf), with the output directory as the only state shared by runs.    *)
(*                                                                         *)
(* Text is modelled as sequences of one-character strings, so that         *)
(* str.strip, str.replace, int parsing, str() and string comparison are    *)
(* computed and not assumed.                                               *)
(***************************************************************************)
EXTENDS Integers, Sequences, FiniteSets, TLC

VARIABLES
    cwd,          \* os.getcwd() at import time (app.py:15-16), as path tokens
    dirs,         \* the directories that exist
    fs,           \* the files on disk: path -> content
    clock,        \* index of the current calendar date in Dates
    pc,           \* position of the request in flight ("idle" between requests)
    upload_file,  \* the table the latest request called generate_invoice on, if it did
    df,           \* generate_invoice: df after lines 29-30
    df_sorted,    \* generate_invoice: df_sorted after lines 34-36
    today,        \* generate_invoice: today (line 39)
    excel_path,   \* generate_invoice: excel_path (line 41)
    html_path,    \* generate_invoice: html_path (line 96)
    pdf_path,     \* generate_invoice: pdf_path (line 93)
    resp,         \* what index handed to render_template (lines 125-131)
    nreq,         \* number of requests received so far
    steps,        \* history: the pipeline steps the run in flight has completed
    written,      \* history: the paths the run in flight has written
    fs0,          \* history: fs when the request in flight arrived
    order,        \* history: the indexer sort_values computed (line 35)
    clean,        \* history: the dates whose xlsx was last written by a run that returned
    last,         \* history: how the latest request ended
    failed        \* history: some run so far ended in an error

vars == <<cwd, dirs, fs, clock, pc, upload_file, df, df_sorted, today,
          excel_path, html_path, pdf_path, resp, nreq, steps, written, fs0,
          order, clean, last, failed>>

-----------------------------------------------------------------------------
(* Bounds of the model.                                                    *)

MaxRows == 3        \* data rows of an uploaded table (pipeline specification)
MaxServerRows == 1  \* data rows of an uploaded table (server specification)
MaxRequests == 2    \* requests served in one behaviour of the server
MaxDate == 2        \* calendar dates the clock runs through

-----------------------------------------------------------------------------
(* Characters and strings.                                                 *)

None == <<>>
Some(x) == <<x>>

Range(s) == {s[i] : i \in DOMAIN s}

Upper == <<"A","B","C","D","E","F","G","H","I","J","K","L","M",
           "N","O","P","Q","R","S","T","U","V","W","X","Y","Z">>
LowerAlpha == <<"a","b","c","d","e","f","g","h","i","j","k","l","m",
                "n","o","p","q","r","s","t","u","v","w","x","y","z">>
DigitChars == <<"0","1","2","3","4","5","6","7","8","9">>

\* The characters of the model in code-point order (Python compares str by
\* code point).
Ascii == <<"\t", " ", "-", ".">> \o DigitChars \o <<":">> \o Upper \o <<"_">> \o LowerAlpha

Code == [c \in Range(Ascii) |-> CHOOSE i \in DOMAIN Ascii : Ascii[i] = c]
IsSpace(c) == c \in {" ", "\t"}
IsDigit(c) == c \in Range(DigitChars)
DigitVal(c) == (CHOOSE i \in DOMAIN DigitChars : DigitChars[i] = c) - 1

\* str.lower on one character, and on a string.
LowerChar ==
    [c \in Range(Ascii) |->
        IF c \in Range(Upper)
        THEN LowerAlpha[CHOOSE i \in DOMAIN Upper : Upper[i] = c]
        ELSE c]
Lower(s) == [i \in DOMAIN s |-> LowerChar[s[i]]]

RECURSIVE LStrip(_)
LStrip(s) == IF s # <<>> /\ IsSpace(Head(s)) THEN LStrip(Tail(s)) ELSE s
RECURSIVE RStrip(_)
RStrip(s) ==
    IF s # <<>> /\ IsSpace(s[Len(s)]) THEN RStrip(SubSeq(s, 1, Len(s) - 1)) ELSE s
\* A strip that forgets the trailing side.
StripLeading(s) == LStrip(s)

\* str.strip(): leading and trailing whitespace removed, nothing else changed.
Strip(s) == LStrip(RStrip(s))

\* int(text) for a string of digits.
RECURSIVE ParseInt(_)
ParseInt(s) ==
    IF s = <<>> THEN 0
    ELSE 10 * ParseInt(SubSeq(s, 1, Len(s) - 1)) + DigitVal(s[Len(s)])

\* str(n) for n >= 0.
RECURSIVE IntStr(_)
IntStr(n) ==
    IF n < 10 THEN <<DigitChars[n + 1]>>
    ELSE IntStr(n \div 10) \o <<DigitChars[(n % 10) + 1]>>

\* a < b for Python str: by code point, a proper prefix first.
RECURSIVE StrLess(_, _)
StrLess(a, b) ==
    IF b = <<>> THEN FALSE
    ELSE IF a = <<>> THEN TRUE
    ELSE IF Head(a) # Head(b) THEN Code[Head(a)] < Code[Head(b)]
    ELSE StrLess(Tail(a), Tail(b))

\* s.replace(old, new) on a token sequence in which `old` occurs only as a
\* whole token: every occurrence is replaced, wherever it stands.
Replace(s, old, new) == [i \in DOMAIN s |-> IF s[i] = old THEN new ELSE s[i]]

Max(S) == CHOOSE m \in S : \A x \in S : x <= m

-----------------------------------------------------------------------------
(* Cell values: what pandas and openpyxl hold in a cell.                   *)

StrVal(s) == [k |-> "str", s |-> s, n |-> 0]
IntVal(n) == [k |-> "int", s |-> <<>>, n |-> n]
NaN == [k |-> "nan", s |-> <<>>, n |-> 0]

\* str(cell.value) as line 83 takes it.
PyStr(v) ==
    IF v.k = "int" THEN IntStr(v.n)
    ELSE IF v.k = "str" THEN v.s
    ELSE <<"N","o","n","e">>

\* bool(cell.value) as the filter on line 85 takes it: None, 0 and "" are falsy.
Truthy(v) ==
    IF v.k = "int" THEN v.n # 0
    ELSE IF v.k = "str" THEN v.s # <<>>
    ELSE FALSE

\* The default ordering of a column's values (sort_values with no key):
\* numbers by value, strings by code point. read_csv gives a column one kind.
ValLess(a, b) ==
    IF a.k = "int" /\ b.k = "int" THEN a.n < b.n
    ELSE IF a.k = "str" /\ b.k = "str" THEN StrLess(a.s, b.s)
    ELSE FALSE

-----------------------------------------------------------------------------
(* Column names.                                                           *)

Invoice == <<"I","n","v","o","i","c","e">>
CustomerName == <<"C","u","s","t","o","m","e","r"," ","N","a","m","e">>
ProductName == <<"P","r","o","d","u","c","t"," ","N","a","m","e">>
ProductQty == <<"P","r","o","d","u","c","t"," ","Q","t","y">>
SerialNo == <<"S","e","r","i","a","l"," ","N","o",".">>

columns_needed == <<Invoice, CustomerName, ProductName, ProductQty>>

-----------------------------------------------------------------------------
(* Uploaded tables: a header row of column names and rows of raw text      *)
(* cells, one cell per column.                                             *)

\* How a column's header may be spelled in an upload.
Spell(name, v) ==
    CASE v = "exact" -> name
      [] v = "padded" -> <<" ">> \o name \o <<" ", "\t">>
      [] v = "lower" -> Lower(name)
      [] v = "spaced" -> Replace(name, " ", "_")

Spellings == {"exact", "padded", "lower", "spaced"}

Extra == <<"N","o","t","e","s">>

\* The four required columns, each tagged with the field it carries.
BaseCols == [i \in 1..4 |-> [f |-> i, name |-> columns_needed[i]]]

Without(s, k) == [i \in 1..(Len(s) - 1) |-> IF i < k THEN s[i] ELSE s[i + 1]]

Reordered == <<BaseCols[4], BaseCols[2], BaseCols[1], BaseCols[3]>>

\* Headers of the uploads: one required column respelled, one required column
\* absent, every column padded, an extra column, the columns in another order,
\* and a second column that strips to "Invoice".
HeaderCols ==
    {[BaseCols EXCEPT ![k].name = Spell(@, v)] : k \in 1..4, v \in Spellings}
    \cup {Without(BaseCols, k) : k \in 1..4}
    \cup {[i \in 1..4 |-> [BaseCols[i] EXCEPT !.name = Spell(@, "padded")]]}
    \cup {<<[f |-> 5, name |-> Extra]>> \o BaseCols}
    \cup {Reordered}
    \cup {BaseCols \o <<[f |-> 1, name |-> <<" ">> \o Invoice]>>}

\* Raw cell texts of the four fields (and of the extra column).
InvoiceTexts == {<<"9">>, <<"1","0">>, <<"A","1">>}
CustomerTexts == {<<>>, <<"B","a","r","t","h","o","l","o","m","e","w"," ","F","o","x">>}
ProductTexts == {<<"P","e","n">>}
QtyTexts == {<<"0">>, <<"0","1","2">>}
ExtraText == <<"x">>

Records == [1..4 -> InvoiceTexts \cup CustomerTexts \cup ProductTexts \cup QtyTexts]
RowRecords ==
    {r \in Records : /\ r[1] \in InvoiceTexts /\ r[2] \in CustomerTexts
                     /\ r[3] \in ProductTexts /\ r[4] \in QtyTexts}

SortRecords == {r \in RowRecords : r[4] = <<"0">>}

SeqsUpTo(S, n) == UNION {[1..m -> S] : m \in 0..n}

MkTable(cols, recs) ==
    [header |-> [j \in DOMAIN cols |-> cols[j].name],
     rows |-> [i \in DOMAIN recs |->
                 [j \in DOMAIN cols |->
                    IF cols[j].f = 5 THEN ExtraText ELSE recs[i][cols[j].f]]]]

\* Uploads of the pipeline specification: every header over at most one row
\* (the header is matched without looking at the rows), and the exact
\* headers over every sequence of the rows that differ in Invoice and name.
Tables ==
    {MkTable(c, r) : c \in HeaderCols, r \in SeqsUpTo(RowRecords, 1)}
    \cup {MkTable(BaseCols, r) : r \in SeqsUpTo(SortRecords, MaxRows)}

\* Uploads of the server specification.
ServerRecord == <<<<"A","1">>, <<>>, <<"P","e","n">>, <<"0","1","2">>>>
ServerTables ==
    {MkTable(BaseCols, r) : r \in SeqsUpTo({ServerRecord}, MaxServerRows)}
    \cup {MkTable(Without(BaseCols, 4), <<>>)}

-----------------------------------------------------------------------------
(* generate_invoice, steps 1 and 2: load, project, sort, number.           *)

AllDigits(s) == s # <<>> /\ \A i \in DOMAIN s : IsDigit(s[i])

\* read_csv gives a column a numeric type when every non-empty cell parses
\* as a number, and leaves it text otherwise; an empty cell is NaN.
NumericCol(t, j) == \A i \in DOMAIN t.rows : t.rows[i][j] = <<>> \/ AllDigits(t.rows[i][j])

ParseCell(raw, numeric) ==
    IF raw = <<>> THEN NaN
    ELSE IF numeric THEN IntVal(ParseInt(raw))
    ELSE StrVal(raw)

read_csv(t) ==
    [columns |-> t.header,
     data |-> [i \in DOMAIN t.rows |->
                 [j \in DOMAIN t.header |-> ParseCell(t.rows[i][j], NumericCol(t, j))]]]

\* df.columns = df.columns.str.strip()
StripColumns(d) == [d EXCEPT !.columns = [j \in DOMAIN @ |-> Strip(@[j])]]

\* The positions of the columns labelled `name`, in order.
RECURSIVE Labelled(_, _, _)
Labelled(cols, name, j) ==
    IF j > Len(cols) THEN <<>>
    ELSE (IF cols[j] = name THEN <<j>> ELSE <<>>) \o Labelled(cols, name, j + 1)

\* A presence test that looks for the sort key only.
HasInvoiceColumn(d) == Labelled(d.columns, Invoice, 1) # <<>>

\* df[columns_needed]: a KeyError when a label matches no column; every
\* column a label matches is taken, in the order of columns_needed.
HasColumns(d) == \A k \in DOMAIN columns_needed : Labelled(d.columns, columns_needed[k], 1) # <<>>

RECURSIVE Picked(_, _)
Picked(cols, k) ==
    IF k > Len(columns_needed) THEN <<>>
    ELSE Labelled(cols, columns_needed[k], 1) \o Picked(cols, k + 1)

Filter(d) ==
    LET sel == Picked(d.columns, 1)
    IN [columns |-> [j \in DOMAIN sel |-> d.columns[sel[j]]],
        data |-> [i \in DOMAIN d.data |-> [j \in DOMAIN sel |-> d.data[i][sel[j]]]]]

\* sort_values(by='Invoice') needs the label to name one column.
UniqueKey(d) == Len(Labelled(d.columns, Invoice, 1)) = 1
KeyOf(d, row) == row[Labelled(d.columns, Invoice, 1)[1]]

\* Ascending with na_position='last'.
SortLess(a, b) ==
    IF b.k = "nan" THEN a.k # "nan"
    ELSE IF a.k = "nan" THEN FALSE
    ELSE ValLess(a, b)

Perms(n) == {p \in [1..n -> 1..n] : \A i, j \in 1..n : p[i] = p[j] => i = j}

\* A sort with ascending=False.
SortOrdersDescending(d) ==
    {p \in Perms(Len(d.data)) :
        \A i, j \in 1..Len(d.data) :
            i < j => ~SortLess(KeyOf(d, d.data[p[i]]), KeyOf(d, d.data[p[j]]))}

\* The indexers sort_values may compute. Its default kind is 'quicksort',
\* which pandas documents as not stable: rows with equal keys may come out in
\* any order (numpy's introsort at more than 16 rows, its vectorised sort at
\* any size), so every ordering that sorts the keys is an outcome.
SortOrders(d) ==
    {p \in Perms(Len(d.data)) :
        \A i, j \in 1..Len(d.data) :
            i < j => ~SortLess(KeyOf(d, d.data[p[j]]), KeyOf(d, d.data[p[i]]))}

\* Serial numbers without the + 1.
NumberedFromZero(d, p) ==
    [columns |-> <<SerialNo>> \o d.columns,
     data |-> [i \in DOMAIN d.data |-> <<IntVal(i - 1)>> \o d.data[p[i]]]]

\* reset_index(drop=True), then insert(0, 'Serial No.', index + 1).
Numbered(d, p) ==
    [columns |-> <<SerialNo>> \o d.columns,
     data |-> [i \in DOMAIN d.data |-> <<IntVal(i)>> \o d.data[p[i]]]]

-----------------------------------------------------------------------------
(* The worksheet, and generate_invoice step 3 (lines 39-89).               *)

TitleFontSize == 14
RowHeight == 25
WidthPad == 2

thin == "thin"
center_alignment == "center,center,wrap"
header_fill == "FFF2CC"
header_font == [bold |-> TRUE, size |-> 0]
title_font == [bold |-> TRUE, size |-> TitleFontSize]

\* A cell as a workbook without styling holds it.
Cell(v) == [value |-> v, font |-> [bold |-> FALSE, size |-> 0], fill |-> "",
            alignment |-> "", border |-> ""]

NoSheet == [cells |-> <<>>, merged |-> {}, heights |-> <<>>, widths |-> <<>>]

\* DataFrame.to_excel(index=False, startrow=1): sheet row 1 is left empty,
\* row 2 holds the column labels and rows 3.. the data; NaN is an empty cell.
to_excel(d) ==
    LET nc == Len(d.columns)
    IN [cells |-> <<[j \in 1..nc |-> Cell(NaN)]>>
                  \o <<[j \in 1..nc |-> Cell(StrVal(d.columns[j]))]>>
                  \o [i \in DOMAIN d.data |-> [j \in 1..nc |-> Cell(d.data[i][j])]],
        merged |-> {},
        heights |-> [i \in 1..(Len(d.data) + 2) |-> 0],
        widths |-> [j \in 1..nc |-> 0]]

max_row(ws) == Len(ws.cells)

\* "Vibes - " + today
TitleText(t) == <<"V","i","b","e","s"," ","-"," ">> \o t

\* Lines 54-58: merge row 1 and write the title into A1.
TitleRow(ws, total_columns, t) ==
    [ws EXCEPT
        !.merged = @ \cup {[row |-> 1, from |-> 1, to |-> total_columns]},
        !.cells[1][1] = [value |-> StrVal(TitleText(t)), font |-> title_font,
                         fill |-> header_fill, alignment |-> center_alignment,
                         border |-> @.border]]

\* Lines 60-67: the header row's style, and the heights of rows 1 and 2.
HeaderRow(ws) ==
    [ws EXCEPT
        !.cells[2] = [j \in DOMAIN @ |->
                        [@[j] EXCEPT !.fill = header_fill, !.font = header_font,
                                     !.alignment = center_alignment, !.border = thin]],
        !.heights[1] = RowHeight,
        !.heights[2] = RowHeight]

\* Lines 69-73: the data rows.
DataRows(ws, total_columns) ==
    [ws EXCEPT
        !.cells = [i \in DOMAIN @ |->
                     IF i < 3 THEN @[i]
                     ELSE [j \in DOMAIN @[i] |->
                             IF j <= total_columns
                             THEN [@[i][j] EXCEPT !.alignment = center_alignment,
                                                  !.border = thin]
                             ELSE @[i][j]]],
        !.heights = [i \in DOMAIN @ |-> IF i < 3 THEN @[i] ELSE RowHeight]]

\* Lines 75-78: a border on every cell.
Borders(ws, total_columns) ==
    [ws EXCEPT
        !.cells = [i \in DOMAIN @ |->
                     [j \in DOMAIN @[i] |->
                        IF j <= total_columns THEN [@[i][j] EXCEPT !.border = thin]
                        ELSE @[i][j]]]]

\* The lengths taken with min_row=1 (the title row counted) and with
\* min_row=3 (the header row left out).
ColumnLengthsFromRow1(ws, col_idx) ==
    {Len(PyStr(ws.cells[i][col_idx].value)) :
        i \in {r \in 1..max_row(ws) : Truthy(ws.cells[r][col_idx].value)}}
ColumnLengthsDataOnly(ws, col_idx) ==
    {Len(PyStr(ws.cells[i][col_idx].value)) :
        i \in {r \in 3..max_row(ws) : Truthy(ws.cells[r][col_idx].value)}}

\* Lines 82-86: the lengths max() ranges over for one column: the cells of
\* rows min_row..max_row of that column whose value is truthy.
ColumnLengths(ws, col_idx) ==
    {Len(PyStr(ws.cells[i][col_idx].value)) :
        i \in {r \in 2..max_row(ws) : Truthy(ws.cells[r][col_idx].value)}}

\* max() of an empty sequence raises ValueError.
WidthsRaise(ws, total_columns) ==
    \E c \in 1..total_columns : ColumnLengths(ws, c) = {}

\* Lines 80-87.
ColumnWidths(ws, total_columns) ==
    [ws EXCEPT
        !.widths = [j \in DOMAIN @ |->
                      IF j <= total_columns
                      THEN Max(ColumnLengths(ws, j)) + WidthPad
                      ELSE @[j]]]

\* Lines 53-87 on the loaded workbook.
Styled(ws, d, t) ==
    LET total_columns == Len(d.columns)
    IN ColumnWidths(
         Borders(DataRows(HeaderRow(TitleRow(ws, total_columns, t)), total_columns),
                 total_columns),
         total_columns)

-----------------------------------------------------------------------------
(* Paths, dates and files.                                                 *)

Join(a, b) == a \o <<"/">> \o b

RECURSIVE LastSlash(_, _)
LastSlash(p, i) == IF i = 0 \/ p[i] = "/" THEN i ELSE LastSlash(p, i - 1)
\* os.path.dirname
Dirname(p) == SubSeq(p, 1, LastSlash(p, Len(p)) - 1)

UPLOAD_FOLDER == Join(cwd, <<"uploads">>)
OUTPUT_FOLDER == Join(cwd, <<"outputs">>)

\* The working directories the application may be started in; a directory
\* name may hold any text, ".xlsx" included.
CwdChoices == {<<"/", "srv", "/", "app">>, <<"/", "srv", "/", "export", ".xlsx">>}

\* The file name of every upload.
UploadName == <<"data", ".csv">>

\* datetime.now().strftime("%Y-%m-%d") on the clock's date.
strftime(c) ==
    <<"2","0","2","6","-","1","1","-">> \o (IF c < 10 THEN <<"0">> ELSE <<>>) \o IntStr(c)

\* A conversion that loses the sheet.
HtmlOfNothing(ws) == [kind |-> "html", of |-> NoSheet]

Csv(t) == [kind |-> "csv", table |-> t]
Xlsx(ws) == [kind |-> "xlsx", sheet |-> ws]
Html(ws) == [kind |-> "html", of |-> ws]
Pdf(ws) == [kind |-> "pdf", of |-> ws]
Partial == [kind |-> "partial"]

WriteFile(f, p, c) == [q \in DOMAIN f \cup {p} |-> IF q = p THEN c ELSE f[q]]
Readable(f, p, kind) == p \in DOMAIN f /\ f[p].kind = kind
Writable(p) == Dirname(p) \in dirs

-----------------------------------------------------------------------------
(* The state machine.                                                      *)

NoDf == [columns |-> <<>>, data |-> <<>>]

\* Lines 108-110.
EmptyResp == [status |-> 200, excel_file |-> None, pdf_file |-> None,
              preview_data |-> None, error |-> None]

\* The order of the pipeline's steps in generate_invoice.
StepOrder == <<"load", "sort", "xlsx", "style", "html", "pdf">>

upload_path == Join(UPLOAD_FOLDER, UploadName)
excel_filename(t) == <<"Vibes_Invoice_">> \o t \o <<".xlsx">>

Init ==
    /\ cwd \in CwdChoices
    /\ dirs = {cwd, UPLOAD_FOLDER, OUTPUT_FOLDER}
    /\ fs = <<>>
    /\ clock = 1
    /\ pc = "idle"
    /\ upload_file = None
    /\ df = NoDf
    /\ df_sorted = NoDf
    /\ today = <<>>
    /\ excel_path = <<>>
    /\ html_path = <<>>
    /\ pdf_path = <<>>
    /\ resp = EmptyResp
    /\ nreq = 0
    /\ steps = <<>>
    /\ written = {}
    /\ fs0 = <<>>
    /\ order = <<>>
    /\ clean = {}
    /\ last = "none"
    /\ failed = FALSE

locals == <<df, df_sorted, today, excel_path, html_path, pdf_path, order>>
env == <<cwd, dirs>>

\* Midnight passes.
Tick ==
    /\ clock < MaxDate
    /\ clock' = clock + 1
    /\ UNCHANGED <<env, fs, pc, upload_file, locals, resp, nreq, steps, written, fs0, clean, last, failed>>

\* index, GET: lines 108-112 and 125-131.
Get ==
    /\ pc = "idle"
    /\ nreq < MaxRequests
    /\ nreq' = nreq + 1
    /\ resp' = EmptyResp
    /\ last' = "get"
    /\ UNCHANGED failed
    /\ upload_file' = None
    /\ UNCHANGED <<env, fs, clock, pc, locals, steps, written, fs0, clean>>

\* index, POST without a file: lines 113-114.
PostNoFile ==
    /\ pc = "idle"
    /\ nreq < MaxRequests
    /\ nreq' = nreq + 1
    /\ resp' = [EmptyResp EXCEPT !.error = Some(<<"No file selected">>)]
    /\ last' = "nofile"
    /\ UNCHANGED failed
    /\ upload_file' = None
    /\ UNCHANGED <<env, fs, clock, pc, locals, steps, written, fs0, clean>>

\* index, POST with a file: lines 116-121, up to the call of generate_invoice.
\* uploaded_file.save stands outside the try: when it raises, Flask answers
\* 500 and no template is rendered.
Post(inputs, limit) ==
    /\ pc = "idle"
    /\ nreq < limit
    /\ nreq' = nreq + 1
    /\ \/ \E t \in inputs :
            /\ fs' = WriteFile(fs, upload_path, Csv(t))
            /\ upload_file' = Some(t)
            /\ pc' = "load"
            /\ resp' = EmptyResp
            /\ steps' = <<>>
            /\ written' = {}
            /\ fs0' = fs'
            /\ df' = NoDf /\ df_sorted' = NoDf /\ today' = <<>> /\ order' = <<>>
            /\ excel_path' = <<>> /\ html_path' = <<>> /\ pdf_path' = <<>>
            /\ last' = "running"
       \/ /\ resp' = [EmptyResp EXCEPT !.status = 500]
          /\ last' = "http500"
          /\ upload_file' = None
          /\ UNCHANGED <<fs, pc, locals, steps, written, fs0>>
    /\ UNCHANGED <<env, clock, clean, failed>>

\* An exception that escapes index: Flask answers 500.
Uncaught(e) ==
    /\ resp' = [EmptyResp EXCEPT !.status = 500]
    /\ pc' = "idle"
    /\ last' = "error"
    /\ failed' = TRUE

\* Lines 122-131: the except clause of index, and the response.
Caught(e) ==
    /\ resp' = [EmptyResp EXCEPT !.error = Some(<<"Error processing file: ", e>>)]
    /\ pc' = "idle"
    /\ last' = "error"
    /\ failed' = TRUE

\* Step 1, lines 29-30.
LoadCsv ==
    /\ pc = "load"
    /\ \/ /\ Readable(fs, upload_path, "csv")
          /\ df' = StripColumns(read_csv(fs[upload_path].table))
          /\ pc' = "sort"
          /\ steps' = Append(steps, "load")
          /\ UNCHANGED <<resp, last, failed>>
       \/ /\ Caught("OSError")
          /\ UNCHANGED <<df, steps>>
    /\ UNCHANGED <<env, fs, clock, upload_file, df_sorted, today, excel_path,
                   html_path, pdf_path, order, nreq, written, fs0, clean>>

\* Step 2, lines 33-36.
FilterSort ==
    /\ pc = "sort"
    /\ \/ /\ HasColumns(df) /\ UniqueKey(Filter(df))
          /\ \E p \in SortOrders(Filter(df)) :
                /\ order' = p
                /\ df_sorted' = Numbered(Filter(df), p)
          /\ pc' = "xlsx"
          /\ steps' = Append(steps, "sort")
          /\ UNCHANGED <<resp, last, failed>>
       \/ /\ ~HasColumns(df)
          /\ Caught("KeyError")
          /\ UNCHANGED <<df_sorted, order, steps>>
       \/ /\ HasColumns(df) /\ ~UniqueKey(Filter(df))
          /\ Caught("ValueError")
          /\ UNCHANGED <<df_sorted, order, steps>>
    /\ UNCHANGED <<env, fs, clock, upload_file, df, today, excel_path,
                   html_path, pdf_path, nreq, written, fs0, clean>>

\* Step 3, lines 39-42: the date is read once, and to_excel writes the file.
\* A write that raises leaves the file as it was, or cut short.
SaveExcel ==
    /\ pc = "xlsx"
    /\ today' = strftime(clock)
    /\ excel_path' = Join(OUTPUT_FOLDER, excel_filename(today'))
    /\ \/ /\ fs' = WriteFile(fs, excel_path', Xlsx(to_excel(df_sorted)))
          /\ written' = written \cup {excel_path'}
          /\ clean' = clean \ {today'}
          /\ pc' = "style"
          /\ steps' = Append(steps, "xlsx")
          /\ UNCHANGED <<resp, last, failed>>
       \/ /\ \/ UNCHANGED <<fs, clean>>
             \/ /\ fs' = WriteFile(fs, excel_path', Partial)
                /\ clean' = clean \ {today'}
          /\ Caught("OSError")
          /\ UNCHANGED <<written, steps>>
    /\ UNCHANGED <<env, clock, upload_file, df, df_sorted, html_path, pdf_path,
                   order, nreq, fs0>>

\* Step 3, lines 45-89: load the workbook, style it, save it again.
StyleWorkbook ==
    /\ pc = "style"
    /\ \/ /\ Readable(fs, excel_path, "xlsx")
          /\ ~WidthsRaise(fs[excel_path].sheet, Len(df_sorted.columns))
          /\ fs' = WriteFile(fs, excel_path, Xlsx(Styled(fs[excel_path].sheet, df_sorted, today)))
          /\ written' = written \cup {excel_path}
          /\ pc' = "html"
          /\ steps' = Append(steps, "style")
          /\ UNCHANGED <<resp, last, failed>>
       \/ /\ Readable(fs, excel_path, "xlsx")
          /\ WidthsRaise(fs[excel_path].sheet, Len(df_sorted.columns))
          /\ Caught("ValueError")
          /\ UNCHANGED <<fs, written, steps>>
       \/ /\ \/ UNCHANGED fs
             \/ /\ Readable(fs, excel_path, "xlsx")
                /\ ~WidthsRaise(fs[excel_path].sheet, Len(df_sorted.columns))
                /\ fs' = WriteFile(fs, excel_path, Partial)
          /\ Caught("OSError")
          /\ UNCHANGED <<written, steps>>
    /\ UNCHANGED <<env, clock, upload_file, locals, nreq, fs0, clean>>

\* Step 4, lines 92-98: the two paths, then the workbook on disk as HTML.
\* open(html_path, "w") raises when the directory of html_path does not
\* exist, and has emptied the file by the time xlsx2html can raise.
ExportHtml ==
    /\ pc = "html"
    /\ pdf_path' = Join(OUTPUT_FOLDER, Replace(excel_filename(today), ".xlsx", ".pdf"))
    /\ html_path' = Replace(excel_path, ".xlsx", ".html")
    /\ \/ /\ Writable(html_path')
          /\ Readable(fs, excel_path, "xlsx")
          /\ fs' = WriteFile(fs, html_path', Html(fs[excel_path].sheet))
          /\ written' = written \cup {html_path'}
          /\ pc' = "pdf"
          /\ steps' = Append(steps, "html")
          /\ UNCHANGED <<resp, last, failed>>
       \/ /\ \/ UNCHANGED fs
             \/ /\ Writable(html_path')
                /\ fs' = WriteFile(fs, html_path', Partial)
          /\ Caught("OSError")
          /\ UNCHANGED <<written, steps>>
    /\ UNCHANGED <<env, clock, upload_file, df, df_sorted, today, excel_path,
                   order, nreq, fs0, clean>>

\* An export that removes the intermediate HTML file when the rendering fails.
ExportPdfRemovesHtml ==
    /\ pc = "pdf"
    /\ \/ /\ Readable(fs, html_path, "html")
          /\ fs' = WriteFile(fs, pdf_path, Pdf(fs[html_path].of))
          /\ written' = written \cup {pdf_path}
          /\ pc' = "return"
          /\ steps' = Append(steps, "pdf")
          /\ UNCHANGED <<resp, last, failed>>
       \/ /\ fs' = [q \in DOMAIN fs \ {html_path} |-> fs[q]]
          /\ Caught("OSError")
          /\ UNCHANGED <<written, steps>>
    /\ UNCHANGED <<env, clock, upload_file, locals, nreq, fs0, clean>>

\* Step 4, line 101: wkhtmltopdf renders the HTML file on disk.
ExportPdf ==
    /\ pc = "pdf"
    /\ \/ /\ Readable(fs, html_path, "html")
          /\ fs' = WriteFile(fs, pdf_path, Pdf(fs[html_path].of))
          /\ written' = written \cup {pdf_path}
          /\ pc' = "return"
          /\ steps' = Append(steps, "pdf")
          /\ UNCHANGED <<resp, last, failed>>
       \/ /\ \/ UNCHANGED fs
             \/ fs' = WriteFile(fs, pdf_path, Partial)
          /\ Caught("OSError")
          /\ UNCHANGED <<written, steps>>
    /\ UNCHANGED <<env, clock, upload_file, locals, nreq, fs0, clean>>

\* Lines 103, 121 and 125-131: the run returns and index answers.
Return ==
    /\ pc = "return"
    /\ resp' = [EmptyResp EXCEPT
                   !.excel_file = Some(excel_filename(today)),
                   !.pdf_file = Some(Replace(excel_filename(today), ".xlsx", ".pdf")),
                   !.preview_data = Some(df_sorted)]
    /\ pc' = "idle"
    /\ last' = "ok"
    /\ UNCHANGED failed
    /\ clean' = clean \cup {today}
    /\ UNCHANGED <<env, fs, clock, upload_file, locals, nreq, steps, written, fs0>>

generate_invoice ==
    LoadCsv \/ FilterSort \/ SaveExcel \/ StyleWorkbook \/ ExportHtml \/ ExportPdf \/ Return

index == Get \/ PostNoFile \/ Post(ServerTables, MaxRequests)

\* The server: requests one after another, each run to its end before the next.
Next == Tick \/ index \/ generate_invoice

Spec == Init /\ [][Next]_vars

\* One upload of any table through the pipeline.
NextUpload == Post(Tables, 1) \/ generate_invoice

InitUpload == Init /\ cwd = <<"/", "srv", "/", "app">>

SpecUpload == InitUpload /\ [][NextUpload]_vars

-----------------------------------------------------------------------------
(* What the properties below speak of.                                     *)

Done(step) == step \in Range(steps)
ErrorOf(e) == Some(<<"Error processing file: ", e>>)

\* The column of df_sorted labelled Invoice.
InvoiceCol == CHOOSE j \in DOMAIN df_sorted.columns : df_sorted.columns[j] = Invoice

\* The text h is the text name with nothing but whitespace around it.
IsPadded(h, name) ==
    \E i \in 1..(Len(h) - Len(name) + 1) :
        /\ \A j \in 1..(i - 1) : IsSpace(h[j])
        /\ \A j \in (i + Len(name))..Len(h) : IsSpace(h[j])
        /\ \A j \in 1..Len(name) : h[i + j - 1] = name[j]

\* Every required name is the name of exactly one column, surrounding
\* whitespace aside / surrounding whitespace and letter case aside.
TrimmedMatch(t) ==
    \A k \in DOMAIN columns_needed :
        Cardinality({j \in DOMAIN t.header : IsPadded(t.header[j], columns_needed[k])}) = 1
LooseMatch(t) ==
    \A k \in DOMAIN columns_needed :
        Cardinality({j \in DOMAIN t.header :
                        IsPadded(Lower(t.header[j]), Lower(columns_needed[k]))}) = 1
\* A required column is absent, however generously names are compared.
Lacks(t) ==
    \E k \in DOMAIN columns_needed :
        \A j \in DOMAIN t.header : ~IsPadded(Lower(t.header[j]), Lower(columns_needed[k]))

SortAttempted == Done("load") /\ pc # "sort"

-----------------------------------------------------------------------------
\* C1: for an input with N data rows that reaches the sort, the row sequence
\* has length N, 'Serial No.' is the first column and holds 1..N in row
\* order, and the rows are in ascending order of Invoice.
C1_SerialAndSorted ==
    (upload_file # None /\ Done("sort")) =>
        LET n == Len(upload_file[1].rows)
        IN /\ Len(df_sorted.data) = n
           /\ df_sorted.columns[1] = SerialNo
           /\ \A i \in 1..n : df_sorted.data[i][1] = IntVal(i)
           /\ \A i, j \in 1..n :
                 i < j => ~ValLess(df_sorted.data[j][InvoiceCol], df_sorted.data[i][InvoiceCol])

\* Three rows that did not arrive in Invoice order have been sorted and numbered.
C1_Witness ==
    /\ upload_file # None /\ Done("sort")
    /\ Len(df_sorted.data) = 3
    /\ order[1] = 3
    /\ ValLess(df_sorted.data[1][InvoiceCol], df_sorted.data[3][InvoiceCol])

C3_MissingColumn ==
    (upload_file # None /\ Lacks(upload_file[1])) =>
        /\ fs = fs0
        /\ pc \in {"load", "sort", "idle"}
        /\ pc = "idle" => (last = "error" /\ resp.error # None)

\* Such an upload has failed while an earlier run's files stand untouched.
C3_Witness ==
    /\ upload_file # None /\ Lacks(upload_file[1])
    /\ pc = "idle" /\ resp.error = ErrorOf("KeyError")
    /\ \E p \in DOMAIN fs : Dirname(p) = OUTPUT_FOLDER /\ fs[p].kind = "pdf"

\* C4 (as claimed): a header that differs from the required names only in
\* letter case or surrounding whitespace is accepted like the exact names.
C4_CaseInsensitive ==
    (upload_file # None /\ LooseMatch(upload_file[1]) /\ SortAttempted) =>
        /\ Done("sort")
        /\ df_sorted.columns = <<SerialNo>> \o columns_needed

\* C4 (amended): names are matched exactly after trimming surrounding
\* whitespace: a header that differs only in surrounding whitespace is
\* accepted and its rows processed under the exact names, and a header that
\* differs in letter case is rejected with a KeyError.
C4_TrimmedExact ==
    (upload_file # None /\ SortAttempted) =>
        LET t == upload_file[1]
            col(k) == CHOOSE j \in DOMAIN t.header : IsPadded(t.header[j], columns_needed[k])
        IN /\ TrimmedMatch(t) =>
                /\ Done("sort")
                /\ df_sorted.columns = <<SerialNo>> \o columns_needed
                /\ Len(df_sorted.data) = Len(t.rows)
                /\ \A i \in DOMAIN df_sorted.data :
                      df_sorted.data[i] =
                          <<IntVal(i)>> \o [k \in 1..4 |-> df.data[order[i]][col(k)]]
           /\ (LooseMatch(t) /\ ~TrimmedMatch(t)) =>
                /\ ~Done("sort")
                /\ pc = "idle" /\ resp.error = ErrorOf("KeyError")

\* A header with padded names has been accepted and its row processed.
C4_Witness ==
    /\ upload_file # None /\ Done("sort")
    /\ \A j \in DOMAIN upload_file[1].header :
          IsSpace(upload_file[1].header[j][1]) /\ IsSpace(upload_file[1].header[j][Len(upload_file[1].header[j])])
    /\ Len(df_sorted.data) = 1

\* C5: a failure in a pipeline stage is caught in index and answered with
\* one error message, no file links and no preview; the process goes on
\* serving: the handler is back between requests, the next upload is
\* accepted, and a run that returns has its outputs on disk whatever
\* happened before.
C5_ErrorsCaught ==
    /\ pc \in {"idle", "return"} \cup Range(StepOrder)
    /\ (pc = "idle" /\ last = "error") =>
          /\ resp.status = 200
          /\ Len(resp.error) = 1
          /\ resp.excel_file = None /\ resp.pdf_file = None /\ resp.preview_data = None
    /\ (pc = "idle" /\ last = "error" /\ nreq < MaxRequests) =>
          ENABLED Post(ServerTables, MaxRequests)
    /\ (pc = "idle" /\ last = "ok") =>
          /\ resp.error = None
          /\ resp.excel_file = Some(excel_filename(today))
          /\ resp.preview_data = Some(df_sorted)
          /\ Readable(fs, excel_path, "xlsx") /\ Readable(fs, pdf_path, "pdf")

\* A request has failed and the next upload has produced its outputs.
C5_Witness ==
    /\ pc = "idle"
    /\ failed /\ last = "ok"
    /\ Readable(fs, pdf_path, "pdf")

C6_Positions ==
    /\ steps = SubSeq(StepOrder, 1, Len(steps))
    /\ pc \in Range(StepOrder) => pc = StepOrder[Len(steps) + 1]
    /\ pc = "return" => steps = StepOrder
    /\ written \subseteq DOMAIN fs

C6_Moves ==
    /\ DOMAIN fs \subseteq DOMAIN fs'
    /\ (steps' # steps /\ steps' # <<>>) => (pc # "idle" /\ steps' = Append(steps, pc))
    /\ (last' = "error" /\ last # "error") => (pc' = "idle" /\ steps' = steps)

\* C6: the steps of a run execute in the order load, sort, xlsx, style, html,
\* pdf; a step that fails ends the run, no later step executing; no file is
\* ever removed, so the files the earlier steps wrote stay on disk.
C6_StepOrder == [](C6_Positions) /\ [][C6_Moves]_vars

\* A run has failed after writing files.
C6_Witness ==
    /\ pc = "idle" /\ last = "error"
    /\ Len(steps) >= 4
    /\ written # {}

TextLen(v) == IF v.k = "nan" THEN 0 ELSE Len(PyStr(v))

\* C7: the width of every column of the styled sheet is 2 plus the greatest
\* text length among the column's header and its data cells, a function of
\* that column alone.
C7_ColumnWidth ==
    (upload_file # None /\ Done("style")) =>
        /\ Readable(fs, excel_path, "xlsx")
        /\ \A c \in DOMAIN df_sorted.columns :
              fs[excel_path].sheet.widths[c] =
                  2 + Max({Len(df_sorted.columns[c])}
                          \cup {TextLen(df_sorted.data[i][c]) : i \in DOMAIN df_sorted.data})

\* A styled sheet in which one column is wider than its header asks for, and
\* that holds a zero and an empty cell.
C7_Witness ==
    /\ upload_file # None /\ Done("style")
    /\ \E c \in DOMAIN df_sorted.columns :
          fs[excel_path].sheet.widths[c] > Len(df_sorted.columns[c]) + 2
    /\ \E i \in DOMAIN df_sorted.data :
          \E c, d \in DOMAIN df_sorted.columns :
              df_sorted.data[i][c] = IntVal(0) /\ df_sorted.data[i][d] = NaN
    /\ \E i \in DOMAIN df_sorted.data : df_sorted.data[i][InvoiceCol] = IntVal(10)

\* C8: an upload with the required header and no data rows raises nothing of
\* its own (only a failing read or write can end the run), its serial
\* numbers are none, and the styled sheet is the title row and the header row.
C8_EmptyBody ==
    (upload_file # None /\ TrimmedMatch(upload_file[1]) /\ upload_file[1].rows = <<>>) =>
        /\ (pc = "idle" /\ last = "error") => resp.error = ErrorOf("OSError")
        /\ Done("sort") =>
              (df_sorted.data = <<>> /\ df_sorted.columns = <<SerialNo>> \o columns_needed)
        /\ Done("style") =>
              /\ Readable(fs, excel_path, "xlsx")
              /\ Len(fs[excel_path].sheet.cells) = 2
              /\ fs[excel_path].sheet.cells[1][1].value = StrVal(TitleText(today))
              /\ \A j \in DOMAIN df_sorted.columns :
                    fs[excel_path].sheet.cells[2][j].value = StrVal(df_sorted.columns[j])

\* Such an upload has gone through every step.
C8_Witness ==
    /\ upload_file # None /\ upload_file[1].rows = <<>>
    /\ pc = "idle" /\ last = "ok"
    /\ Len(fs[excel_path].sheet.cells) = 2

Named(t, ext) == Join(OUTPUT_FOLDER, <<"Vibes_Invoice_">> \o t \o <<ext>>)

\* C9: within a run the three paths are Vibes_Invoice_<date> of one date
\* reading, in the output directory, with the extensions xlsx, html and pdf;
\* a run that returns leaves its own content in the three files.
C9_SameStem ==
    html_path # <<>> =>
        /\ excel_path = Named(today, ".xlsx")
        /\ html_path = Named(today, ".html")
        /\ pdf_path = Named(today, ".pdf")
        /\ (pc = "idle" /\ last = "ok") =>
              /\ Readable(fs, excel_path, "xlsx") /\ Readable(fs, html_path, "html")
              /\ Readable(fs, pdf_path, "pdf")
              /\ fs[excel_path].sheet = Styled(to_excel(df_sorted), df_sorted, today)
              /\ fs[html_path].of = fs[excel_path].sheet
              /\ fs[pdf_path].of = fs[excel_path].sheet

DatesSeen == {strftime(c) : c \in 1..MaxDate}

PdfFromXlsx(d) ==
    /\ Readable(fs, Named(d, ".xlsx"), "xlsx")
    /\ Readable(fs, Named(d, ".pdf"), "pdf")
    /\ fs[Named(d, ".pdf")].of = fs[Named(d, ".xlsx")].sheet

\* C10 (as claimed): between runs, whenever the xlsx and the pdf of a date
\* both exist, the pdf was rendered from the xlsx on disk.
C10_PdfMatchesXlsx ==
    pc = "idle" =>
        \A d \in DatesSeen :
            (Named(d, ".xlsx") \in DOMAIN fs /\ Named(d, ".pdf") \in DOMAIN fs)
                => PdfFromXlsx(d)

\* C10 (amended): for every date whose xlsx was last written by a run that
\* returned without error, both files exist and the pdf was rendered from
\* the xlsx on disk.
C10_PdfMatchesAfterSuccess == \A d \in clean : PdfFromXlsx(d)

\* A run has failed after writing the xlsx of a date, and the next run on
\* that date has returned.
C10_Witness ==
    /\ pc = "idle" /\ failed /\ last = "ok"
    /\ today \in clean
    /\ excel_path \in DOMAIN fs0

====
